---- MODULE Spec2Model ----
(***************************************************************************)
(* A model of the batch scripts of ICH-Agent:                              *)
(*   - src/src/gen_vedio.py   : the video submission / polling loop        *)
(*   - src/src/tts.py         : the TTS batch loop, its text cleaning      *)
(*   - src/src/text_normalizer.py, tts_extras.py, tts_optional_features.py *)
(*   - src/src/infer_api.py, infer_api_domain.py : the LLM inference loops  *)
(* Texts are sequences of one-character strings, so that the replacement   *)
(* and regular-expression steps of the cleaning pipeline are computed      *)
(* character by character as the Python code computes them.                *)
(***************************************************************************)
EXTENDS Integers, Sequences, FiniteSets, TLC

(***************************************************************************)
(* Text primitives                                                         *)
(***************************************************************************)

\* The characters "mu" and "rsquo" stand for the single code points U+03BC
\* and U+2019 of the source; every other character stands for itself.
Digits == {"0", "1", "2", "3", "4", "5", "6", "7", "8", "9"}

\* Python's \s and str.strip() whitespace, as far as the inputs contain it.
Whitespace == {" ", "\n", "\t"}

Max(a, b) == IF a >= b THEN a ELSE b

Min(a, b) == IF a <= b THEN a ELSE b

\* s[p..] starts with the literal lit
StartsAt(s, p, lit) ==
    /\ p + Len(lit) - 1 <= Len(s)
    /\ \A k \in 1..Len(lit) : s[p + k - 1] = lit[k]

\* lit occurs somewhere in s
Contains(s, lit) == \E p \in 1..(Len(s) + 1) : StartsAt(s, p, lit)

\* the least element of a non-empty set of integers
Least(S) == CHOOSE x \in S : \A y \in S : x <= y

\* the first position >= p whose character is not in set cs (Len(s)+1 if none)
SkipWhile(s, p, cs) ==
    LET stop == {q \in p..Len(s) : s[q] \notin cs}
    IN IF stop = {} THEN Max(p, Len(s) + 1) ELSE Least(stop)

\* the first position >= p holding character c (Len(s)+1 if none)
FindChar(s, p, c) ==
    LET at == {q \in p..Len(s) : s[q] = c}
    IN IF at = {} THEN Max(p, Len(s) + 1) ELSE Least(at)

\* str.replace(old, new): non-overlapping occurrences, left to right
RECURSIVE ReplaceFrom(_, _, _, _)
ReplaceFrom(s, p, old, new) ==
    LET at == {q \in p..Len(s) : StartsAt(s, q, old)}
    IN IF at = {} THEN SubSeq(s, p, Len(s))
       ELSE SubSeq(s, p, Least(at) - 1) \o new
                \o ReplaceFrom(s, Least(at) + Len(old), old, new)

StrReplace(s, old, new) == ReplaceFrom(s, 1, old, new)

\* str.strip(): whitespace removed at both ends
Strip(s) ==
    LET keep == {q \in 1..Len(s) : s[q] \notin Whitespace}
    IN IF keep = {} THEN <<>>
       ELSE SubSeq(s, Least(keep), CHOOSE x \in keep : \A y \in keep : y <= x)

\* re.sub(cs+, rep, s) for a one-character rep: of every maximal run of
\* characters of cs only one character is left, and it is rep
CollapseRuns(s, cs, rep) ==
    LET idx  == [k \in 1..Len(s) |-> k]
        kept == SelectSeq(idx, LAMBDA k : s[k] \notin cs \/ k = 1 \/ s[k - 1] \notin cs)
    IN [j \in 1..Len(kept) |-> IF s[kept[j]] \in cs THEN rep ELSE s[kept[j]]]

(***************************************************************************)
(* Literals of the cleaning pipeline                                       *)
(***************************************************************************)

LitMmHg ==
    <<"m", "m", "H", "g">>

LitML ==
    <<"m", "L">>

LitMl ==
    <<"m", "l">>

LitUgL ==
    <<"mu", "g", "/", "L">>

LitMilliliters ==
    <<" ", "m", "i", "l", "l", "i", "l", "i", "t", "e", "r", "s">>

LitMillimetersOfMercury ==
    <<" ", "m", "i", "l", "l", "i", "m", "e", "t", "e", "r", "s", " ", "o",
      "f", " ", "m", "e", "r", "c", "u", "r", "y">>

LitMicrogramsPerLiter ==
    <<" ", "m", "i", "c", "r", "o", "g", "r", "a", "m", "s", " ", "p", "e",
      "r", " ", "l", "i", "t", "e", "r">>

LitSystolic ==
    <<"a", " ", "s", "y", "s", "t", "o", "l", "i", "c", " ", "b", "l", "o",
      "o", "d", " ", "p", "r", "e", "s", "s", "u", "r", "e", " ", "o", "f",
      " ">>

LitDiastolic ==
    <<" ", "a", "n", "d", " ", "a", " ", "d", "i", "a", "s", "t", "o", "l",
      "i", "c", " ", "b", "l", "o", "o", "d", " ", "p", "r", "e", "s", "s",
      "u", "r", "e", " ", "o", "f", " ">>

LitDearCurly ==
    <<"D", "e", "a", "r", " ", "[", "P", "a", "t", "i", "e", "n", "t",
      "rsquo", "s", " ", "N", "a", "m", "e", "]", ",">>

LitDearPlain ==
    <<"D", "e", "a", "r", " ", "[", "P", "a", "t", "i", "e", "n", "t", "'",
      "s", " ", "N", "a", "m", "e", "]", ",">>

LitAHAASA ==
    <<"A", "H", "A", "/", "A", "S", "A">>

LitAHA ==
    <<"A", "H", "A">>

LitICH ==
    <<"I", "C", "H">>

LitIntracerebral ==
    <<"i", "n", "t", "r", "a", "c", "e", "r", "e", "b", "r", "a", "l", " ",
      "h", "e", "m", "o", "r", "r", "h", "a", "g", "e">>

(***************************************************************************)
(* Regular-expression substitutions of tts.py and text_normalizer.py       *)
(***************************************************************************)

\* re.sub(r"\([^)]*\)", "", s): an opening parenthesis up to the first closing
\* one after it is removed; scanning resumes after the match.
RECURSIVE ParenFrom(_, _)
ParenFrom(s, p) ==
    LET at == {q \in p..Len(s) :
                  s[q] = "(" /\ FindChar(s, q + 1, ")") <= Len(s)}
    IN IF at = {} THEN SubSeq(s, p, Len(s))
       ELSE SubSeq(s, p, Least(at) - 1)
                \o ParenFrom(s, FindChar(s, Least(at) + 1, ")") + 1)

\* text_normalizer._remove_parentheses, and tts.clean_text line 116
_remove_parentheses(text) == ParenFrom(text, 1)

\* _replace_blood_pressure(match): the replacement text for groups 1 and 2
_replace_blood_pressure(systolic, diastolic) ==
    LitSystolic \o systolic \o LitMillimetersOfMercury
        \o LitDiastolic \o diastolic \o LitMillimetersOfMercury

\* (\d+)/(\d+)\s*mmHg matches at position p of s
BloodPressureAt(s, p) ==
    LET e1 == SkipWhile(s, p, Digits)
        e2 == SkipWhile(s, e1 + 1, Digits)
        e3 == SkipWhile(s, e2, Whitespace)
    IN /\ e1 > p
       /\ e1 <= Len(s) /\ s[e1] = "/"
       /\ e2 > e1 + 1
       /\ StartsAt(s, e3, LitMmHg)

\* re.sub(r"(\d+)/(\d+)\s*mmHg", _replace_blood_pressure, s)
RECURSIVE BloodPressureFrom(_, _)
BloodPressureFrom(s, p) ==
    LET at == {q \in p..Len(s) : BloodPressureAt(s, q)}
    IN IF at = {} THEN SubSeq(s, p, Len(s))
       ELSE LET q  == Least(at)
                e1 == SkipWhile(s, q, Digits)
                e2 == SkipWhile(s, e1 + 1, Digits)
                e3 == SkipWhile(s, e2, Whitespace)
            IN SubSeq(s, p, q - 1)
                   \o _replace_blood_pressure(SubSeq(s, q, e1 - 1),
                                              SubSeq(s, e1 + 1, e2 - 1))
                   \o BloodPressureFrom(s, e3 + Len(LitMmHg))

BloodPressureSub(s) == BloodPressureFrom(s, 1)

\* the alternatives of units, by index, that (\d+)\s*(u1|u2|...) matches at
\* position p of s
UnitAt(s, p, units) ==
    LET e1 == SkipWhile(s, p, Digits)
        e2 == SkipWhile(s, e1, Whitespace)
    IN IF e1 > p THEN {k \in 1..Len(units) : StartsAt(s, e2, units[k])}
       ELSE {}

\* re.sub(r"(\d+)\s*(u1|u2|...)", r"\1 words", s) for one entry of
\* UNIT_PATTERNS: units is the tuple of alternatives, in pattern order.
RECURSIVE UnitFrom(_, _, _, _)
UnitFrom(s, p, units, words) ==
    LET at == {q \in p..Len(s) : UnitAt(s, q, units) # {}}
    IN IF at = {} THEN SubSeq(s, p, Len(s))
       ELSE LET q  == Least(at)
                e1 == SkipWhile(s, q, Digits)
                e2 == SkipWhile(s, e1, Whitespace)
                k  == Least(UnitAt(s, q, units))
            IN SubSeq(s, p, q - 1) \o SubSeq(s, q, e1 - 1) \o words
                   \o UnitFrom(s, e2 + Len(units[k]), units, words)

UnitSub(s, units, words) == UnitFrom(s, 1, units, words)

\* UNIT_PATTERNS (tts.py 59-63, text_normalizer.py 9-13), in list order
UNIT_PATTERNS ==
    << [units |-> <<LitML, LitMl>>, words |-> LitMilliliters],
       [units |-> <<LitMmHg>>,      words |-> LitMillimetersOfMercury],
       [units |-> <<LitUgL>>,       words |-> LitMicrogramsPerLiter] >>

\* for pattern, repl in UNIT_PATTERNS: text = re.sub(pattern, repl, text)
RECURSIVE ApplyUnitPatterns(_, _)
ApplyUnitPatterns(text, k) ==
    IF k > Len(UNIT_PATTERNS) THEN text
    ELSE ApplyUnitPatterns(
             UnitSub(text, UNIT_PATTERNS[k].units, UNIT_PATTERNS[k].words),
             k + 1)

\* a slip that applies the generic unit rules before the blood-pressure rule
convert_medical_units_unitsFirst(text) ==
    BloodPressureSub(ApplyUnitPatterns(text, 1))

\* tts.convert_medical_units
convert_medical_units(text) == ApplyUnitPatterns(BloodPressureSub(text), 1)

\* text_normalizer._normalize_units
_normalize_units(text) == ApplyUnitPatterns(BloodPressureSub(text), 1)

\* text_normalizer._strip_noise_chars
_strip_noise_chars(text) ==
    StrReplace(StrReplace(StrReplace(text, <<"*">>, <<>>), <<"-">>, <<>>),
               <<"#">>, <<>>)

\* text_normalizer._expand_acronyms
_expand_acronyms(text, expand_acronyms) ==
    IF ~expand_acronyms THEN text
    ELSE StrReplace(text, LitICH, LitIntracerebral)

\* text_normalizer._normalize_whitespace
_normalize_whitespace(text) ==
    CollapseRuns(Strip(CollapseRuns(text, {" "}, " ")), {"\n"}, "\n")

\* tts.clean_text
clean_text(text) ==
    LET c1 == StrReplace(StrReplace(StrReplace(text, <<"*">>, <<>>),
                                    <<"-">>, <<>>), <<"#">>, <<>>)
        c2 == StrReplace(c1, LitDearCurly, <<>>)
        c3 == StrReplace(c2, LitDearPlain, <<>>)
        c4 == StrReplace(c3, LitAHAASA, <<>>)
        c5 == StrReplace(c4, LitAHA, <<>>)
        c6 == ParenFrom(c5, 1)
        c7 == convert_medical_units(c6)
        c8 == StrReplace(c7, LitICH, LitIntracerebral)
        c9 == Strip(CollapseRuns(c8, {" "}, " "))
    IN CollapseRuns(c9, {"\n"}, "\n")

\* text_normalizer.normalize_text
normalize_text(text, expand_acronyms) ==
    LET t1 == _strip_noise_chars(text)
        t2 == StrReplace(StrReplace(t1, LitDearCurly, <<>>), LitDearPlain, <<>>)
        t3 == StrReplace(StrReplace(t2, LitAHAASA, <<>>), LitAHA, <<>>)
        t4 == _remove_parentheses(t3)
        t5 == _normalize_units(t4)
        t6 == _expand_acronyms(t5, expand_acronyms)
    IN _normalize_whitespace(t6)

\* re.sub(r"\s*\n\s*", " ", s): every maximal whitespace run that holds a
\* newline becomes one space
NewlineRuns(s) ==
    LET InNewlineRun(k) ==
            /\ s[k] \in Whitespace
            /\ \E n \in 1..Len(s) :
                  /\ s[n] = "\n"
                  /\ \A j \in Min(k, n)..Max(k, n) : s[j] \in Whitespace
        idx  == [k \in 1..Len(s) |-> k]
        kept == SelectSeq(idx, LAMBDA k :
                    ~InNewlineRun(k) \/ k = 1 \/ s[k - 1] \notin Whitespace)
    IN [j \in 1..Len(kept) |-> IF InNewlineRun(kept[j]) THEN " " ELSE s[kept[j]]]

\* tts_extras.strip_newlines, and the inline fallback of tts.py 144-145
strip_newlines(text) ==
    Strip(CollapseRuns(NewlineRuns(text), Whitespace, " "))

\* tts.clean_text_with_options; normalizer_available and extras_available say
\* whether the optional imports of tts.py 31-49 succeeded
clean_text_with_options(text, expand_acronyms, strip_nl, normalizer_available) ==
    LET base == IF ~normalizer_available THEN clean_text(text)
                ELSE normalize_text(text, expand_acronyms)
    IN IF strip_nl THEN strip_newlines(base) ELSE base

(***************************************************************************)
(* File names                                                              *)
(***************************************************************************)

\* Optional[...] values: None is the empty set, a value v is {v}
None == {}

Some(v) == {v}

TheValue(o) == CHOOSE v \in o : TRUE

DigitChar(d) == <<"0", "1", "2", "3", "4", "5", "6", "7", "8", "9">>[d + 1]

\* f"{i:03d}" of gen_vedio.py 183 and tts.py 214 (i < 1000)
Pad3(n) == <<DigitChar((n \div 100) % 10), DigitChar((n \div 10) % 10),
             DigitChar(n % 10)>>

\* str.strip(chars)
StripSet(s, cs) ==
    LET keep == {q \in 1..Len(s) : s[q] \notin cs}
    IN IF keep = {} THEN <<>>
       ELSE SubSeq(s, Least(keep), CHOOSE x \in keep : \A y \in keep : y <= x)

\* the characters tts_extras._sanitize_filename replaces by "_"
ForbiddenNameChars == {"\\", "/", ":", "*", "?", "\"", "<", ">", "|"}

\* the length tts_extras._sanitize_filename truncates to
MaxFilenameLen == 64

LitUnnamed ==
    <<"u", "n", "n", "a", "m", "e", "d">>

\* tts_extras._sanitize_filename (NFKD leaves the model's characters alone)
_sanitize_filename(name) ==
    LET n1 == [k \in 1..Len(name) |->
                  IF name[k] \in ForbiddenNameChars THEN "_" ELSE name[k]]
        n2 == StripSet(CollapseRuns(n1, Whitespace, "_"), {" ", "_"})
        n3 == IF Len(n2) > MaxFilenameLen THEN SubSeq(n2, 1, MaxFilenameLen)
              ELSE n2
    IN IF n3 = <<>> THEN LitUnnamed ELSE n3

\* tts_extras.derive_filename; item.name is the value of the selected field
derive_filename(index, item) ==
    IF item.name # None /\ Strip(TheValue(item.name)) # <<>>
    THEN _sanitize_filename(Strip(TheValue(item.name)))
    ELSE Pad3(index)

\* a file of the output directory: stem and extension
File(stem, ext) == [stem |-> stem, ext |-> ext]

(***************************************************************************)
(* Bounds of the model                                                     *)
(***************************************************************************)

\* the longest input file (records per run)
MaxRecords == 2

\* the largest retry count a run is configured with
MaxRetries == 1

\* the largest max_failures a run is configured with
MaxFailures == 1

\* the longest poll_timeout, in clock ticks (one tick is one second)
MaxPollTimeout == 2

\* the longest time a status query takes to return, in ticks
MaxGetTicks == 1

\* the longest input file of the runs that look at the failure-count abort
MaxAbortRecords == 4

\* the largest max_failures of those runs
MaxAbortFailures == 2

\* the largest retry count of the runs that look at the backoff
MaxBackoffRetries == 4

\* the most rows an input sheet of the inference scripts has
MaxRows == 3

(***************************************************************************)
(* State                                                                   *)
(***************************************************************************)

VARIABLES
    script,        \* "video" (gen_vedio.main), "tts" (tts.synthesize_batch) or
                   \* "text" (the cleaning functions applied on their own)
    cfg,           \* GenVideoConfig / TTSConfig and the environment of the run
    data,          \* the loaded input records
    files,         \* the files that exist in the output directory
    pc,            \* where the script's control is
    i,             \* 1-based position of the record being processed
    attempt,       \* synthesize_video: attempt
    task_code,     \* main: task_code
    deadline,      \* main: deadline of the polling loop
    now,           \* time.time(), in ticks
    attempts,      \* synthesize_batch: attempts
    last_error,    \* synthesize_batch: last_error (None or the exception)
    successes,     \* synthesize_batch: successes
    failures,      \* synthesize_batch: failures
    hooks,         \* the HookManager: enabled = "hooks is not None", and its state
    log,           \* the lines of the hooks log file
    summary,       \* the run summary file: None or the summary written
    posts,         \* history: submit POSTs made per record
    gets,          \* history: status GETs issued per record
    synth,         \* history: tts_to_file calls made per record
    model_inits,   \* history: TTS(...) constructions
    outcome,       \* history: how each record ended
    calls,         \* history: the hook callbacks made per record
    validated,     \* history: records whose content was validated
    cleaned,       \* history: records whose content was cleaned and rewritten
    poll_start,    \* history: the time polling of the current record began
    seen_complete, \* history: records for which a completion status was seen
    last_status,   \* history: what the latest status query of the run
                   \* returned: "none" before the first query,
                   \* "failed", "recognized", "unrecognized" or "not_object"
    post_ok,       \* history: records whose submit POST has succeeded, in
                   \* this run or in an earlier one
    data_loaded,   \* history: the input file has been read (tts.py 177,
                   \* gen_vedio.py main before its loop)
    found,         \* history: records whose output artifact existed when the
                   \* loop reached them
    written,       \* history: the files this run has written
    events,        \* history: the events the hook manager was called with
                   \* (on_run_start, on_item_success, on_item_failure,
                   \* finalize), in the order of the calls
    fn,            \* text: the function applied
    orig,          \* text: the input string
    txt,           \* text: the current string
    prev,          \* text: the string before the last application
    passes,        \* text: how often the function has been applied
    patient_results, \* inference: the list patient_results
    doctor_results,  \* inference: the list doctor_results
    patient_result,  \* inference: infer_api.main's patient_result of the
                     \* current row (None before it is built)
    saved,           \* inference: the output files written, with the lists
                     \* they hold
    completions      \* history: the completions each input row has received

batchVars == <<script, cfg, data, files, pc, i, attempt, task_code, deadline,
               now, attempts, last_error, successes, failures, hooks, log,
               summary, posts, gets, synth, model_inits, outcome, calls,
               validated, cleaned, poll_start, seen_complete, last_status,
               post_ok, data_loaded, found, written, events>>

textVars == <<fn, orig, txt, prev, passes>>

inferVars == <<patient_results, doctor_results, patient_result, saved,
               completions>>

vars == <<batchVars, textVars, inferVars>>

(***************************************************************************)
(* Inputs                                                                  *)
(***************************************************************************)

\* a record's "content": something that is not a string (or is missing), or
\* a string
NotAString == [isstr |-> FALSE, text |-> <<>>]

Str(t) == [isstr |-> TRUE, text |-> t]

ContentValues == {NotAString, Str(<<" ">>), Str(LitICH)}

\* a record's value of the field --filename-field selects
NameValues == {None, Some(<<"a">>)}

ItemValues == [content : ContentValues, name : NameValues]

DataValues == UNION {[1..n -> ItemValues] : n \in 0..MaxRecords}

\* GenVideoConfig as the script can be run with
VideoConfigs ==
    [dry_run : BOOLEAN, resume : BOOLEAN, write_metadata : BOOLEAN,
     retries : (-1)..MaxRetries, sleep_seconds : {0, 1},
     poll_progress : BOOLEAN, poll_interval : {1, 2},
     poll_timeout : 1..MaxPollTimeout]

\* the values the "status" field of a status payload takes, written as
\* Python writes them; "None" is a payload without the field
StatusValues ==
    {"'completed'", "'done'", "2", "2.0", "'2'", "'failed'", "'processing'",
     "None"}

\* a response body that is valid JSON but not an object (a list, a number,
\* a string): resp.json() returns it as it is
NotAnObject == [isdict |-> FALSE, status |-> "None"]

\* what check_video_progress returns: None when the query failed, else the
\* payload
StatusResponses ==
    {None} \cup {Some([isdict |-> TRUE, status |-> v]) : v \in StatusValues}
           \cup {Some(NotAnObject)}

(***************************************************************************)
(* gen_vedio.py: main, synthesize_video, check_video_progress              *)
(***************************************************************************)

\* gen_vedio.py 183-184: the audio file submitted for the record at 1-based
\* position idx (enumerate counts from 0 and the name is built from i+1)
audio_filename(idx) == File(Pad3(idx), "wav")

\* gen_video_extras.should_skip_task, looking for the audio instead of the
\* sidecar
should_skip_task_audio(meta_path, resume) ==
    resume /\ File(meta_path.stem, "wav") \in files

\* gen_video_extras.should_skip_task(meta_path, resume)
should_skip_task(meta_path, resume) == resume /\ meta_path \in files

\* the condition of synthesize_video's while loop (line 115), with the
\* comparison written the wrong way
SubmitLoopCond_strict(att, retries) == att < Max(0, retries)

\* the condition of synthesize_video's while loop (line 115)
SubmitLoopCond(att, retries) == att <= Max(0, retries)

\* the backoff of lines 123-124 without its cap
BackoffWait_uncapped(att, retries) == IF att <= retries THEN 2 * att ELSE 0

\* the backoff of lines 123-124 and of tts.py 251-252: the seconds slept
\* after the att-th failed attempt
BackoffWait(att, retries) == IF att <= retries THEN Min(2 * att, 5) ELSE 0

\* the completion test of line 219, taking a failure status for completion
StatusIsComplete_failed(v) ==
    v \in {"'completed'", "'done'", "2", "2.0", "'failed'"}

\* the completion test of line 219; Python's == makes 2.0 equal to 2
StatusIsComplete(v) == v \in {"'completed'", "'done'", "2", "2.0"}

\* the status values that denote completion: "completed", "done" and the
\* number 2
CompletionValues == {"'completed'", "'done'", "2", "2.0"}

\* the condition of the polling loop (line 215), off by one
PollLoopCond_inclusive(t, dl) == t <= dl

\* the condition of the polling loop (line 215)
PollLoopCond(t, dl) == t < dl

\* the variables gen_vedio.py never touches
videoFrame ==
    UNCHANGED <<script, cfg, data, attempts, last_error, successes, failures,
                hooks, log, summary, synth, model_inits, calls, validated,
                cleaned, data_loaded, events, textVars, inferVars>>

\* lines 224-225 and the loop's next iteration: the record is finished at
\* time t with outcome o
VideoNextRecord(t, o) ==
    /\ now' = (IF cfg.sleep_seconds > 0 THEN t + cfg.sleep_seconds ELSE t)
    /\ outcome' = [outcome EXCEPT ![i] = o]
    /\ i' = i + 1
    /\ pc' = "v_item"

\* the test of line 198, left out: no submission counts as failed
SubmissionFailed_never(tc) == FALSE

\* line 198: "if not task_code"; synthesize_video returns None on failure
\* and the record's code, which is never empty, on success
SubmissionFailed(tc) == tc = None

\* lines 198-214: what follows the submission, which returned tc at time t,
\* up to the first status query
VideoAfterSubmit(tc, t) ==
    /\ task_code' = tc
    /\ IF SubmissionFailed(tc)
       THEN \* "Submission failed": continue
            /\ now' = t
            /\ outcome' = [outcome EXCEPT ![i] = "submit_failed"]
            /\ i' = i + 1
            /\ pc' = "v_item"
            /\ UNCHANGED <<files, written, deadline, poll_start>>
       ELSE /\ files' = (IF cfg.write_metadata
                         THEN files \cup {File(Pad3(i), "json")} ELSE files)
            /\ written' = (IF cfg.write_metadata
                           THEN written \cup {File(Pad3(i), "json")}
                           ELSE written)
            /\ IF cfg.poll_progress /\ ~cfg.dry_run
               THEN /\ deadline' = t + cfg.poll_timeout
                    /\ poll_start' = t
                    /\ now' = t
                    /\ pc' = "v_poll"
                    /\ UNCHANGED <<i, outcome>>
               ELSE /\ VideoNextRecord(t, "submitted")
                    /\ UNCHANGED <<deadline, poll_start>>

\* lines 182-196: the head of the loop for record i, up to the first POST
VideoItem ==
    /\ script = "video" /\ pc = "v_item"
    /\ videoFrame
    /\ UNCHANGED <<posts, gets, seen_complete, last_status, post_ok>>
    /\ found' = (IF i <= Len(data) /\ File(Pad3(i), "json") \in files
                 THEN found \cup {i} ELSE found)
    /\ IF i > Len(data)
       THEN /\ pc' = "done"
            /\ UNCHANGED <<files, written, i, attempt, task_code, deadline,
                           now, outcome, poll_start>>
       ELSE IF should_skip_task(File(Pad3(i), "json"), cfg.resume)
       THEN /\ i' = i + 1
            /\ outcome' = [outcome EXCEPT ![i] = "skipped"]
            /\ UNCHANGED <<files, written, pc, attempt, task_code, deadline,
                           now, poll_start>>
       ELSE IF cfg.dry_run
       THEN /\ VideoAfterSubmit(Some(Pad3(i)), now)
            /\ UNCHANGED attempt
       ELSE /\ attempt' = 0
            /\ IF SubmitLoopCond(0, cfg.retries)
               THEN /\ pc' = "v_submit"
                    /\ UNCHANGED <<files, written, i, task_code, deadline,
                                   now, outcome, poll_start>>
               ELSE VideoAfterSubmit(None, now)

\* synthesize_video, lines 114-125: one POST, which succeeds or fails
VideoSubmit ==
    /\ script = "video" /\ pc = "v_submit"
    /\ SubmitLoopCond(attempt, cfg.retries)
    /\ videoFrame
    /\ UNCHANGED <<gets, seen_complete, last_status, found>>
    /\ posts' = [posts EXCEPT ![i] = @ + 1]
    /\ \E ok \in BOOLEAN :
          IF ok
          THEN /\ VideoAfterSubmit(Some(Pad3(i)), now)
               /\ post_ok' = post_ok \cup {i}
               /\ UNCHANGED attempt
          ELSE /\ attempt' = attempt + 1
               /\ UNCHANGED post_ok
               /\ IF SubmitLoopCond(attempt + 1, cfg.retries)
                  THEN /\ now' = now + BackoffWait(attempt + 1, cfg.retries)
                       /\ UNCHANGED <<files, written, pc, i, task_code,
                                      deadline, outcome, poll_start>>
                  ELSE VideoAfterSubmit(
                           None, now + BackoffWait(attempt + 1, cfg.retries))

\* how a response of check_video_progress reads, against the completion
\* values "completed", "done" and 2
StatusClass(r) ==
    IF r = None THEN "failed"
    ELSE IF ~TheValue(r).isdict THEN "not_object"
    ELSE IF TheValue(r).status \in CompletionValues THEN "recognized"
    ELSE "unrecognized"

\* lines 215-222: one turn of the polling loop: the status query, which
\* takes d ticks and returns r, and the sleep after it.  status.get on a
\* payload that is not a dict raises AttributeError, which nothing catches
VideoPoll ==
    /\ script = "video" /\ pc = "v_poll"
    /\ videoFrame
    /\ UNCHANGED <<files, written, attempt, task_code, deadline, posts,
                   poll_start, found, post_ok>>
    /\ IF PollLoopCond(now, deadline)
       THEN \E d \in 0..MaxGetTicks, r \in StatusResponses :
               /\ gets' = [gets EXCEPT ![i] = @ + 1]
               /\ last_status' = StatusClass(r)
               /\ seen_complete' =
                      (IF StatusClass(r) = "recognized"
                       THEN seen_complete \cup {i} ELSE seen_complete)
               /\ IF r = None
                  THEN /\ now' = now + d + cfg.poll_interval
                       /\ UNCHANGED <<pc, i, outcome>>
                  ELSE IF ~TheValue(r).isdict
                  THEN /\ now' = now + d
                       /\ outcome' = [outcome EXCEPT ![i] = "poll_raised"]
                       /\ pc' = "raised"
                       /\ UNCHANGED i
                  ELSE IF StatusIsComplete(TheValue(r).status)
                  THEN VideoNextRecord(now + d, "completed")
                  ELSE /\ now' = now + d + cfg.poll_interval
                       /\ UNCHANGED <<pc, i, outcome>>
       ELSE /\ VideoNextRecord(now, "poll_timeout")
            /\ UNCHANGED <<gets, seen_complete, last_status>>

\* the configurations of the runs that are repeated on one input: every
\* combination of dry_run, resume and write_metadata, with the other options
\* at GenVideoConfig's defaults (no retries, no pacing, no polling)
RerunConfigs ==
    [dry_run : BOOLEAN, resume : BOOLEAN, write_metadata : BOOLEAN,
     retries : {0}, sleep_seconds : {0}, poll_progress : {FALSE},
     poll_interval : {2}, poll_timeout : {1}]

\* gen_vedio.py is run again on the same input, with any options: main
\* starts afresh, and the sidecars the earlier runs wrote are still there
VideoRerun ==
    /\ script = "video" /\ pc = "done"
    /\ cfg' \in RerunConfigs
    /\ pc' = "v_item"
    /\ i' = 1 /\ attempt' = 0 /\ task_code' = None
    /\ deadline' = 0 /\ now' = 0 /\ poll_start' = 0
    /\ posts' = [k \in DOMAIN posts |-> 0]
    /\ gets' = [k \in DOMAIN gets |-> 0]
    /\ outcome' = [k \in DOMAIN outcome |-> "none"]
    /\ seen_complete' = {} /\ last_status' = "none"
    /\ found' = {} /\ written' = {}
    /\ UNCHANGED <<script, data, files, post_ok, attempts, last_error,
                   successes, failures, hooks, log, summary, synth,
                   model_inits, calls, validated, cleaned, data_loaded,
                   events, textVars, inferVars>>

(***************************************************************************)
(* tts.py: synthesize_batch, and tts_optional_features.HookManager         *)
(***************************************************************************)

\* TTSConfig as the script can be run with, and the run's environment:
\* speaker_exists says whether config.speaker_wav exists, optional_modules
\* whether the optional imports of tts.py 31-55 succeeded, filename_field
\* whether --filename-field names the records' name field
AllTtsConfigs ==
    [dry_run : BOOLEAN, resume : BOOLEAN, write_metadata : BOOLEAN,
     retries : (-1)..MaxRetries, sleep_seconds : {0, 1},
     filename_field : BOOLEAN, expand_acronyms : BOOLEAN,
     strip_newlines : BOOLEAN, hooks_log : BOOLEAN, run_summary : BOOLEAN,
     max_failures : {None} \cup {Some(m) : m \in 0..MaxFailures},
     speaker_exists : BOOLEAN, optional_modules : BOOLEAN]

\* the options of c that only add a file, a wait or a change of the text,
\* and differ from TTSConfig's defaults
OffDefault(c) ==
    {o \in {"write_metadata", "sleep_seconds", "filename_field",
            "expand_acronyms", "strip_newlines", "run_summary",
            "speaker_exists"} :
        \/ o = "write_metadata" /\ c.write_metadata
        \/ o = "sleep_seconds" /\ c.sleep_seconds > 0
        \/ o = "filename_field" /\ c.filename_field
        \/ o = "expand_acronyms" /\ ~c.expand_acronyms
        \/ o = "strip_newlines" /\ c.strip_newlines
        \/ o = "run_summary" /\ c.run_summary
        \/ o = "speaker_exists" /\ ~c.speaker_exists}

\* the configurations the runs are checked with: every combination of
\* dry_run, resume, retries, hooks_log and max_failures, with at most one of
\* the other options off its default; without the optional modules the
\* options they implement are left at their defaults
TtsConfigs ==
    {c \in AllTtsConfigs :
        /\ Cardinality(OffDefault(c)) <= 1
        /\ ~c.optional_modules =>
              ~c.hooks_log /\ ~c.run_summary /\ c.max_failures = None
              /\ ~c.filename_field}

\* tts_optional_features.create_hooks: is a HookManager returned
create_hooks(log_path, summary_path, max_failures) ==
    log_path \/ summary_path \/ max_failures # None

\* HookManager.should_abort, giving up at the first failure whatever
\* max_failures is
should_abort_any(h) == h.failures >= 1

\* HookManager.should_abort, comparing with > where the code has >=
should_abort_late(h) ==
    cfg.max_failures # None /\ h.failures > TheValue(cfg.max_failures)

\* HookManager.should_abort
should_abort(h) ==
    cfg.max_failures # None /\ h.failures >= TheValue(cfg.max_failures)

\* HookManager._append_log, leaving item_failure events out of the log
_append_log_noFailures(lg, payload, ok) ==
    IF ~cfg.hooks_log \/ payload.event = "item_failure" THEN lg
    ELSE IF ok THEN Append(lg, payload) ELSE lg

\* HookManager._append_log: the log file after payload is appended, when
\* the write succeeds (ok) or fails
_append_log(lg, payload, ok) ==
    IF ~cfg.hooks_log THEN lg
    ELSE IF ok THEN Append(lg, payload) ELSE lg

\* HookManager.on_item_success without line 54: the success is not counted
on_item_success_uncounted(h) == h

\* HookManager.on_item_success: the manager's state afterwards
on_item_success(h) == [h EXCEPT !.successes = @ + 1]

\* HookManager.on_item_failure: the manager's state afterwards
on_item_failure(h) == [h EXCEPT !.failures = @ + 1]

\* the record of a hook callback for calls
HookCall(event, ok) == [event |-> event, written |-> cfg.hooks_log /\ ok]

\* the stem of out_wav counted from 0, as enumerate without start=1 would
OutStem_zeroBased(idx, item) ==
    IF cfg.optional_modules /\ cfg.filename_field
    THEN derive_filename(idx - 1, item) ELSE Pad3(idx - 1)

\* tts.py 211-216: the stem of out_wav for record idx
OutStem(idx, item) ==
    IF cfg.optional_modules /\ cfg.filename_field
    THEN derive_filename(idx, item) ELSE Pad3(idx)

\* tts_extras.should_skip, and the fallback of tts.py 224
should_skip(out_wav, resume) == resume /\ out_wav \in files

\* tts.py 194 without the strip(): only an empty string is refused
ContentValid_noStrip(content) == content.isstr /\ content.text # <<>>

\* tts.py 194: is the content acceptable
ContentValid(content) == content.isstr /\ Strip(content.text) # <<>>

\* the speaker check of tts.py 167, left out
speaker_wav_exists_unchecked(c) == TRUE

\* tts.py 167: config.speaker_wav.exists()
speaker_wav_exists(c) == c.speaker_exists

\* the retry loop (tts.py 237) going round once more than it may
SynthLoopCond_oneMore(att, retries) == att <= retries + 1

\* the condition of the retry loop (tts.py 237)
SynthLoopCond(att, retries) == att <= retries

\* the variables tts.py never touches
ttsFrame ==
    UNCHANGED <<script, cfg, attempt, task_code, deadline, posts, gets,
                poll_start, seen_complete, last_status, post_ok, textVars,
                inferVars>>

\* the sidecar of record idx, if --write-metadata asks for it
Sidecar(idx) ==
    IF cfg.write_metadata THEN {File(OutStem(idx, data[idx]), "json")} ELSE {}

\* the outcomes of the writes one step makes to the hooks log (the item or
\* run_start event, the run_complete event) and to the summary file
IoResults ==
    [item : IF cfg.hooks_log THEN BOOLEAN ELSE {TRUE},
     final : IF cfg.hooks_log THEN BOOLEAN ELSE {TRUE},
     summary : IF cfg.run_summary THEN BOOLEAN ELSE {TRUE}]

\* the event of a hook callback, as events and the log hold it
Event(event, index) == [event |-> event, index |-> index]

\* lines 295-296 without the call of finalize
finalize_event_none(ev, h) == ev

\* lines 295-296: the events emitted once finalize has been called, when ev
\* are the events emitted before it and h is the manager
finalize_event(ev, h) ==
    IF h.enabled THEN Append(ev, Event("run_complete", 0)) ELSE ev

\* lines 294-296: the loop is left; finalize writes the run_complete event
\* and the summary. s, f, h, lg are the counters, manager and log by then.
TtsFinalize(s, f, h, lg, io) ==
    /\ pc' = "done"
    /\ successes' = s
    /\ failures' = f
    /\ hooks' = h
    /\ log' = (IF h.enabled
               THEN _append_log(lg, [event |-> "run_complete", index |-> 0],
                                io.final)
               ELSE lg)
    /\ summary' = (IF h.enabled /\ cfg.run_summary /\ io.summary
                   THEN Some([successes |-> s, failures |-> f]) ELSE summary)

\* the loop goes on, passing over a record
TtsContinue_skip(s, f, h, lg) ==
    /\ pc' = "t_item"
    /\ i' = i + 2
    /\ successes' = s
    /\ failures' = f
    /\ hooks' = h
    /\ log' = lg
    /\ UNCHANGED summary

\* the loop goes on with the next record
TtsContinue(s, f, h, lg) ==
    /\ pc' = "t_item"
    /\ i' = i + 1
    /\ successes' = s
    /\ failures' = f
    /\ hooks' = h
    /\ log' = lg
    /\ UNCHANGED summary

\* a record is counted as failed (lines 196-201 and 254-260)
TtsFailure(o, io) ==
    LET h == IF hooks.enabled THEN on_item_failure(hooks) ELSE hooks
        lg == IF hooks.enabled
              THEN _append_log(log, [event |-> "item_failure", index |-> i],
                               io.item)
              ELSE log
        ev == IF hooks.enabled
              THEN Append(events, Event("item_failure", i)) ELSE events
    IN /\ calls' = (IF hooks.enabled
                    THEN [calls EXCEPT ![i] =
                             Append(@, HookCall("item_failure", io.item))]
                    ELSE calls)
       /\ outcome' = [outcome EXCEPT ![i] = o]
       /\ IF h.enabled /\ should_abort(h)
          THEN /\ TtsFinalize(successes, failures + 1, h, lg, io)
               /\ events' = finalize_event(ev, h)
               /\ UNCHANGED i
          ELSE /\ TtsContinue(successes, failures + 1, h, lg)
               /\ events' = ev

\* a record is counted as a success (lines 230-232 and 261-263), and what
\* follows it (lines 265-292); wav is the audio tts_to_file wrote (none in
\* a dry run) and t the clock by then
TtsSuccess(wav, t, io) ==
    LET h == IF hooks.enabled THEN on_item_success(hooks) ELSE hooks
        lg == IF hooks.enabled
              THEN _append_log(log, [event |-> "item_success", index |-> i],
                               io.item)
              ELSE log
        ev == IF hooks.enabled
              THEN Append(events, Event("item_success", i)) ELSE events
        s1 == successes + 1
        s2 == IF cfg.dry_run /\ ~h.enabled THEN s1 + 1 ELSE s1
    IN /\ calls' = (IF hooks.enabled
                    THEN [calls EXCEPT ![i] =
                             Append(@, HookCall("item_success", io.item))]
                    ELSE calls)
       /\ outcome' = [outcome EXCEPT ![i] = "success"]
       /\ files' = files \cup wav \cup Sidecar(i)
       /\ written' = written \cup wav \cup Sidecar(i)
       /\ now' = (IF cfg.sleep_seconds > 0 THEN t + cfg.sleep_seconds ELSE t)
       /\ IF h.enabled /\ should_abort(h)
          THEN /\ TtsFinalize(s2, failures, h, lg, io)
               /\ events' = finalize_event(ev, h)
               /\ UNCHANGED i
          ELSE /\ TtsContinue(s2, failures, h, lg)
               /\ events' = ev

\* lines 162-184: the start of synthesize_batch, up to the loop
TtsStart ==
    /\ script = "tts" /\ pc = "t_start"
    /\ ttsFrame
    /\ UNCHANGED <<data, files, written, found, i, now, attempts, last_error,
                   successes, failures, summary, synth, outcome, calls,
                   validated, cleaned>>
    /\ \E mk_ok \in (IF cfg.hooks_log \/ cfg.run_summary THEN BOOLEAN ELSE {TRUE}),
          init_ok \in BOOLEAN, io \in IoResults :
          LET enabled == /\ cfg.optional_modules
                         /\ create_hooks(cfg.hooks_log, cfg.run_summary,
                                         cfg.max_failures)
          IN IF enabled /\ (cfg.hooks_log \/ cfg.run_summary) /\ ~mk_ok
             THEN \* HookManager.__init__: mkdir raises
                  /\ pc' = "raised"
                  /\ UNCHANGED <<hooks, log, model_inits, data_loaded,
                                 events>>
             ELSE /\ hooks' = [hooks EXCEPT !.enabled = enabled]
                  /\ IF ~speaker_wav_exists(cfg)
                     THEN /\ pc' = "raised"
                          /\ UNCHANGED <<log, model_inits, data_loaded,
                                         events>>
                     ELSE /\ model_inits' = model_inits + 1
                          /\ IF ~init_ok
                             THEN /\ pc' = "raised"
                                  /\ UNCHANGED <<log, data_loaded, events>>
                             ELSE /\ pc' = "t_item"
                                  /\ data_loaded' = TRUE
                                  /\ log' = (IF enabled
                                             THEN _append_log(log,
                                                      [event |-> "run_start",
                                                       index |-> 0], io.item)
                                             ELSE log)
                                  /\ events' =
                                        (IF enabled
                                         THEN Append(events,
                                                     Event("run_start", 0))
                                         ELSE events)

\* the strings the records of the inputs hold as their content
RecordTexts == {c.text : c \in {v \in ContentValues : v.isstr}}

\* lines 203-207: clean_text_with_options(content, expand_acronyms,
\* strip_newlines) for every content of the inputs, with and without the
\* optional modules, computed once
cleaned_content ==
    [t \in RecordTexts, expand \in BOOLEAN, strip \in BOOLEAN,
     available \in BOOLEAN |->
        clean_text_with_options(t, expand, strip, available)]

\* lines 186-237: the head of the loop for record i, up to the first
\* tts_to_file call
TtsItem ==
    /\ script = "tts" /\ pc = "t_item"
    /\ ttsFrame
    /\ UNCHANGED <<synth, model_inits, data_loaded>>
    /\ found' = (IF /\ i <= Len(data)
                    /\ File(OutStem(i, data[i]), "wav") \in files
                 THEN found \cup {i} ELSE found)
    /\ \E io \in IoResults :
          IF i > Len(data)
          THEN /\ TtsFinalize(successes, failures, hooks, log, io)
               /\ events' = finalize_event(events, hooks)
               /\ UNCHANGED <<data, files, written, i, now, attempts,
                              last_error, outcome, calls, validated, cleaned>>
          ELSE
          /\ validated' = validated \cup {i}
          /\ IF ~ContentValid(data[i].content)
             THEN /\ TtsFailure("invalid", io)
                  /\ UNCHANGED <<data, files, written, now, attempts,
                                 last_error, cleaned>>
             ELSE
             LET text == cleaned_content[
                             data[i].content.text, cfg.expand_acronyms,
                             cfg.strip_newlines, cfg.optional_modules]
                 item == [data[i] EXCEPT !.content = Str(text)]
                 out_wav == File(OutStem(i, item), "wav")
             IN /\ data' = [data EXCEPT ![i] = item]
                /\ cleaned' = cleaned \cup {i}
                /\ IF should_skip(out_wav, cfg.resume)
                   THEN /\ outcome' = [outcome EXCEPT ![i] = "skipped"]
                        /\ TtsContinue(successes, failures, hooks, log)
                        /\ UNCHANGED <<files, written, now, attempts,
                                       last_error, calls, events>>
                   ELSE IF cfg.dry_run
                   THEN /\ TtsSuccess({}, now, io)
                        /\ UNCHANGED <<attempts, last_error>>
                   ELSE /\ attempts' = 0
                        /\ last_error' = None
                        /\ IF SynthLoopCond(0, cfg.retries)
                           THEN /\ pc' = "t_synth"
                                /\ UNCHANGED <<files, written, i, now,
                                               successes, failures, hooks,
                                               log, summary, outcome, calls,
                                               events>>
                           ELSE TtsSuccess({}, now, io)

\* lines 237-263: one tts_to_file call of the retry loop, which returns or
\* raises, and what follows it
TtsSynth ==
    /\ script = "tts" /\ pc = "t_synth"
    /\ SynthLoopCond(attempts, cfg.retries)
    /\ ttsFrame
    /\ UNCHANGED <<data, model_inits, validated, cleaned, found, data_loaded>>
    /\ synth' = [synth EXCEPT ![i] = @ + 1]
    /\ \E ok \in BOOLEAN, io \in IoResults :
          IF ok
          THEN /\ last_error' = None
               /\ UNCHANGED attempts
               /\ TtsSuccess({File(OutStem(i, data[i]), "wav")}, now, io)
          ELSE /\ last_error' = Some("error")
               /\ attempts' = attempts + 1
               /\ now' = now + BackoffWait(attempts + 1, cfg.retries)
               /\ UNCHANGED <<files, written>>
               /\ IF SynthLoopCond(attempts + 1, cfg.retries)
                  THEN UNCHANGED <<pc, i, successes, failures, hooks, log,
                                   summary, outcome, calls, events>>
                  ELSE TtsFailure("failed", io)

(***************************************************************************)
(* The cleaning functions applied on their own                             *)
(***************************************************************************)

\* how often a function is applied to its own result
MaxPasses == 2

\* how many fragments an input text is put together from
MaxChunks == 3

\* the fragments input texts are put together from
Chunks ==
    {<<"1", "2">>, <<" ">>, LitMmHg, LitML, <<"A">>, <<"H", "A">>, LitAHA,
     <<"(">>, <<")">>, LitICH}

RECURSIVE Flatten(_)
Flatten(ss) == IF ss = <<>> THEN <<>> ELSE Head(ss) \o Flatten(Tail(ss))

ChunkTexts ==
    {Flatten(ss) : ss \in UNION {[1..n -> Chunks] : n \in 0..MaxChunks}}

\* blood-pressure readings "S/D mmHg", with and without blanks before the
\* unit, on their own and inside a sentence
BpNumbers == {<<"1", "2", "0">>, <<"8", "0">>, <<"9">>}

BpGaps == {<<>>, <<" ">>, <<" ", " ">>}

BpPrefixes == {<<>>, <<"B", "P", " ">>}

BpSuffixes == {<<>>, <<" ", "n", "o", "w">>, <<".">>}

BpReading(pre, s, d, gap, suf) ==
    pre \o s \o <<"/">> \o d \o gap \o LitMmHg \o suf

BpTexts ==
    {BpReading(pre, s, d, gap, suf) :
        pre \in BpPrefixes, s \in BpNumbers, d \in BpNumbers, gap \in BpGaps,
        suf \in BpSuffixes}

TextInputs == ChunkTexts \cup BpTexts

\* the functions under test: clean_text, and normalize_text with and
\* without acronym expansion
TextFunctions == {"clean_text", "normalize_text", "normalize_text_noexpand"}

ApplyFn(f, t) ==
    IF f = "clean_text" THEN clean_text(t)
    ELSE IF f = "normalize_text" THEN normalize_text(t, TRUE)
    ELSE normalize_text(t, FALSE)

\* the function is applied to the current text
ApplyCleaning ==
    /\ script = "text" /\ passes < MaxPasses
    /\ prev' = txt
    /\ txt' = ApplyFn(fn, txt)
    /\ passes' = passes + 1
    /\ UNCHANGED <<fn, orig, batchVars, inferVars>>

\* texts that hold line breaks, with blanks and noise characters around them
NewlineTexts ==
    {a \o gap \o b :
        a \in {LitICH, <<"1", "2">> \o LitML},
        gap \in {<<"\n">>, <<" ", "\n", "\n", " ">>, <<"-", "\n">>},
        b \in {LitICH, <<"A">>}}

\* the texts clean_text_with_options is applied to
OptionInputs == TextInputs \cup NewlineTexts

\* how clean_text_with_options can be called, and whether the optional
\* modules of tts.py 31-49 were imported
OptionConfigs ==
    [expand_acronyms : BOOLEAN, strip_newlines : BOOLEAN,
     optional_modules : BOOLEAN]

\* clean_text_with_options is applied to the text
ApplyOptions ==
    /\ script = "options" /\ passes = 0
    /\ prev' = txt
    /\ txt' = clean_text_with_options(txt, cfg.expand_acronyms,
                                      cfg.strip_newlines, cfg.optional_modules)
    /\ passes' = 1
    /\ UNCHANGED <<fn, orig, batchVars, inferVars>>

(***************************************************************************)
(* infer_api.py: main, and infer_api_domain.py: run_inference              *)
(***************************************************************************)

\* the replies a chat completion can come back with
Replies == {"r1", "r2"}

\* the two scripts; only infer_api_domain has --limit-rows
InferenceConfigs ==
    [variant : {"infer_api"}, limit_rows : {None}]
       \cup [variant : {"infer_api_domain"},
             limit_rows : {None} \cup {Some(k) : k \in 0..MaxRows}]

\* DataFrame.head(limit) of build_prompt_dataframe
head(df, limit) ==
    IF limit = None THEN df
    ELSE SubSeq(df, 1, Min(TheValue(limit), Len(df)))

\* the prompts the loop runs over, one row per input row
prompts_df == head(data, cfg.limit_rows)

\* the for loop over the rows, leaving one row early
LoopDone_early(idx, n) == idx >= n

\* the for loop over prompts_df.iterrows() has no row left
LoopDone(idx, n) == idx > n

\* _extract_message_choice: the entry kept of a reply; row and kind tell
\* which prompt the reply answers
Entry(r, kind, c) == [row |-> r, kind |-> kind, content |-> c]

\* the output files in the order they are written, with what they hold;
\* of tells whose results the file is named after
OutputFiles(table_ext) ==
    <<[name |-> "patient_results.json", of |-> "patient",
       content |-> patient_results],
      [name |-> "doctor_results.json", of |-> "doctor",
       content |-> doctor_results],
      [name |-> "patient_results." \o table_ext, of |-> "patient",
       content |-> patient_results],
      [name |-> "doctor_results." \o table_ext, of |-> "doctor",
       content |-> doctor_results]>>

\* the variables the inference scripts never touch
inferFrame ==
    UNCHANGED <<script, cfg, data, files, attempt, task_code, deadline, now,
                attempts, last_error, successes, failures, hooks, log,
                summary, posts, gets, synth, model_inits, outcome, calls,
                validated, cleaned, poll_start, seen_complete, last_status,
                post_ok, data_loaded, found, written, events, textVars>>

\* the head of the loop and the patient completion of row i, which returns
\* a reply or raises
InferPatient ==
    /\ script = "infer" /\ pc = "i_patient"
    /\ inferFrame
    /\ UNCHANGED <<saved, doctor_results, i>>
    /\ IF LoopDone(i, Len(prompts_df))
       THEN /\ pc' = "i_save"
            /\ UNCHANGED <<patient_results, patient_result, completions>>
       ELSE \E ok \in BOOLEAN, c \in Replies :
               IF ~ok
               THEN /\ pc' = "raised"
                    /\ UNCHANGED <<patient_results, patient_result,
                                   completions>>
               ELSE /\ pc' = "i_doctor"
                    /\ completions' =
                          [completions EXCEPT ![i] = @ \cup {"patient"}]
                    /\ IF cfg.variant = "infer_api_domain"
                       THEN /\ patient_results' =
                                  Append(patient_results,
                                         Entry(prompts_df[i], "patient", c))
                            /\ UNCHANGED patient_result
                       ELSE /\ patient_result' =
                                  Some(Entry(prompts_df[i], "patient", c))
                            /\ UNCHANGED patient_results

\* the doctor completion of row i, which returns a reply or raises
InferDoctor ==
    /\ script = "infer" /\ pc = "i_doctor"
    /\ inferFrame
    /\ UNCHANGED saved
    /\ \E ok \in BOOLEAN, c \in Replies :
          IF ~ok
          THEN /\ pc' = "raised"
               /\ UNCHANGED <<patient_results, doctor_results,
                              patient_result, completions, i>>
          ELSE /\ pc' = "i_patient"
               /\ i' = i + 1
               /\ completions' = [completions EXCEPT ![i] = @ \cup {"doctor"}]
               /\ doctor_results' =
                     Append(doctor_results, Entry(prompts_df[i], "doctor", c))
               /\ IF cfg.variant = "infer_api_domain"
                  THEN UNCHANGED <<patient_results, patient_result>>
                  ELSE /\ patient_results' =
                             Append(patient_results, TheValue(patient_result))
                       /\ patient_result' = None

\* the output files are written one after the other; the first k writes
\* succeed and the next one raises
InferSave ==
    /\ script = "infer" /\ pc = "i_save"
    /\ inferFrame
    /\ UNCHANGED <<patient_results, doctor_results, patient_result,
                   completions, i>>
    /\ \E k \in 0..4 :
          LET outs == OutputFiles(IF cfg.variant = "infer_api" THEN "csv"
                                  ELSE "xlsx")
          IN /\ saved' = {outs[j] : j \in 1..k}
             /\ pc' = (IF k = 4 THEN "done" ELSE "write_raised")

(***************************************************************************)
(* Specifications                                                          *)
(***************************************************************************)

\* the values of the variables a script does not use
HistoryInit ==
    /\ posts = [k \in 1..Len(data) |-> 0]
    /\ gets = [k \in 1..Len(data) |-> 0]
    /\ synth = [k \in 1..Len(data) |-> 0]
    /\ outcome = [k \in 1..Len(data) |-> "none"]
    /\ calls = [k \in 1..Len(data) |-> <<>>]
    /\ model_inits = 0
    /\ validated = {}
    /\ cleaned = {}
    /\ poll_start = 0
    /\ seen_complete = {}
    /\ last_status = "none"
    /\ data_loaded = (script = "video")
    /\ post_ok = {}
    /\ found = {}
    /\ written = {}
    /\ events = <<>>

ControlInit ==
    /\ i = 1
    /\ attempt = 0
    /\ task_code = None
    /\ deadline = 0
    /\ now = 0
    /\ attempts = 0
    /\ last_error = None
    /\ successes = 0
    /\ failures = 0
    /\ hooks = [enabled |-> FALSE, failures |-> 0, successes |-> 0]
    /\ log = <<>>
    /\ summary = None

TextIdle ==
    /\ fn = "none"
    /\ orig = <<>>
    /\ txt = <<>>
    /\ prev = <<>>
    /\ passes = 0

InferIdle ==
    /\ patient_results = <<>>
    /\ doctor_results = <<>>
    /\ patient_result = None
    /\ saved = {}
    /\ completions = <<>>

\* gen_vedio.main is started: any configuration, any number of records, and
\* any of the records' sidecars left by earlier runs
InitVideo ==
    /\ script = "video"
    /\ pc = "v_item"
    /\ cfg \in VideoConfigs
    /\ data \in {[k \in 1..n |-> [content |-> NotAString, name |-> None]] :
                    n \in 0..MaxRecords}
    /\ files \in SUBSET {File(Pad3(k), "json") : k \in 1..Len(data)}
    /\ ControlInit /\ HistoryInit /\ TextIdle /\ InferIdle

\* tts.synthesize_batch is started: a configuration, an input file, and any
\* of the records' WAV files left by earlier runs
InitTts ==
    /\ script = "tts"
    /\ pc = "t_start"
    /\ cfg \in TtsConfigs
    /\ data \in DataValues
    /\ cfg.filename_field \/ \A k \in 1..Len(data) : data[k].name = None
    /\ files \in SUBSET {File(OutStem(k, data[k]), "wav") : k \in 1..Len(data)}
    /\ cfg.resume \/ files = {}
    /\ ControlInit /\ HistoryInit /\ TextIdle /\ InferIdle

Init == InitVideo \/ InitTts

Next ==
    \/ VideoItem
    \/ VideoSubmit
    \/ VideoPoll
    \/ TtsStart
    \/ TtsItem
    \/ TtsSynth

Spec == Init /\ [][Next]_vars

\* the video configurations of the runs whose termination is looked at:
\* live runs with and without retries, pacing and polling
LiveVideoConfigs ==
    [dry_run : {FALSE}, resume : {FALSE}, write_metadata : {FALSE},
     retries : 0..MaxRetries, sleep_seconds : {0, 1},
     poll_progress : BOOLEAN, poll_interval : {1},
     poll_timeout : 1..MaxPollTimeout]

\* the TTS configurations of those runs: live runs with and without
\* retries and the failure-count guard
LiveTtsConfigs ==
    [dry_run : {FALSE}, resume : {FALSE}, write_metadata : {FALSE},
     retries : 0..MaxRetries, sleep_seconds : {0},
     filename_field : {FALSE}, expand_acronyms : {TRUE},
     strip_newlines : {FALSE}, hooks_log : {FALSE}, run_summary : {FALSE},
     max_failures : {None} \cup {Some(m) : m \in 1..MaxFailures},
     speaker_exists : BOOLEAN, optional_modules : {TRUE}]

\* either script is started on an input of up to MaxRecords records, with
\* nothing left by earlier runs
InitLive ==
    /\ script \in {"video", "tts"}
    /\ pc = (IF script = "video" THEN "v_item" ELSE "t_start")
    /\ cfg \in (IF script = "video" THEN LiveVideoConfigs ELSE LiveTtsConfigs)
    /\ data \in (IF script = "video"
                 THEN {[k \in 1..n |-> [content |-> NotAString,
                                        name |-> None]] :
                          n \in 0..MaxRecords}
                 ELSE UNION {[1..n -> [content : {NotAString, Str(LitICH)},
                                       name : {None}]] :
                                n \in 0..MaxRecords})
    /\ files = {}
    /\ ControlInit /\ HistoryInit /\ TextIdle /\ InferIdle

\* the scripts are single-threaded and every call they wait for returns or
\* times out: a run that can take a step takes it
SpecLive == InitLive /\ [][Next]_vars /\ WF_vars(Next)

\* the configurations of the runs that look at the failure-count abort:
\* TTSConfig's defaults but for dry_run, hooks_log and max_failures
AbortConfigs ==
    {c \in [dry_run : BOOLEAN, resume : {FALSE}, write_metadata : {FALSE},
             retries : {0}, sleep_seconds : {0}, filename_field : {FALSE},
             expand_acronyms : {TRUE}, strip_newlines : {FALSE},
             hooks_log : BOOLEAN, run_summary : {FALSE},
             max_failures : {None} \cup {Some(m) : m \in 0..MaxAbortFailures},
             speaker_exists : {TRUE}, optional_modules : {TRUE}] : TRUE}

\* the input files of those runs: records with and without a usable content
AbortData ==
    UNION {[1..n -> [content : {NotAString, Str(LitICH)}, name : {None}]] :
              n \in 0..MaxAbortRecords}

\* tts.synthesize_batch is started on a longer input, into an empty output
\* directory
InitAbort ==
    /\ script = "tts"
    /\ pc = "t_start"
    /\ cfg \in AbortConfigs
    /\ data \in AbortData
    /\ files = {}
    /\ ControlInit /\ HistoryInit /\ TextIdle /\ InferIdle

NextTts ==
    \/ TtsStart
    \/ TtsItem
    \/ TtsSynth

SpecAbort == InitAbort /\ [][NextTts]_vars

\* the video configurations of the runs that look at the backoff: no
\* polling, any retry count up to MaxBackoffRetries
BackoffVideoConfigs ==
    [dry_run : {FALSE}, resume : {FALSE}, write_metadata : BOOLEAN,
     retries : (-1)..MaxBackoffRetries, sleep_seconds : {0, 1},
     poll_progress : {FALSE}, poll_interval : {1}, poll_timeout : {1}]

\* the TTS configurations of those runs
BackoffTtsConfigs ==
    [dry_run : {FALSE}, resume : {FALSE}, write_metadata : BOOLEAN,
     retries : (-1)..MaxBackoffRetries, sleep_seconds : {0, 1},
     filename_field : {FALSE}, expand_acronyms : {TRUE},
     strip_newlines : {FALSE}, hooks_log : {FALSE}, run_summary : {FALSE},
     max_failures : {None}, speaker_exists : {TRUE},
     optional_modules : {TRUE}]

\* either script is started on one record, with nothing left by earlier runs
InitBackoff ==
    /\ script \in {"video", "tts"}
    /\ pc = (IF script = "video" THEN "v_item" ELSE "t_start")
    /\ cfg \in (IF script = "video" THEN BackoffVideoConfigs
                ELSE BackoffTtsConfigs)
    /\ data = <<[content |-> (IF script = "video" THEN NotAString
                              ELSE Str(LitICH)),
                 name |-> None]>>
    /\ files = {}
    /\ ControlInit /\ HistoryInit /\ TextIdle /\ InferIdle

NextBackoff ==
    \/ VideoItem
    \/ VideoSubmit
    \/ TtsStart
    \/ TtsItem
    \/ TtsSynth

SpecBackoff == InitBackoff /\ [][NextBackoff]_vars

\* gen_vedio.main is started for the first time on an input: no sidecar
\* exists yet
InitRerun ==
    /\ script = "video"
    /\ pc = "v_item"
    /\ cfg \in RerunConfigs
    /\ data \in {[k \in 1..n |-> [content |-> NotAString, name |-> None]] :
                    n \in 0..MaxRecords}
    /\ files = {}
    /\ ControlInit /\ HistoryInit /\ TextIdle /\ InferIdle

NextRerun ==
    \/ VideoItem
    \/ VideoSubmit
    \/ VideoRerun

SpecRerun == InitRerun /\ [][NextRerun]_vars

\* an inference script is started on a sheet of up to MaxRows rows; a row
\* is known by its position in the sheet
InitInfer ==
    /\ script = "infer"
    /\ pc = "i_patient"
    /\ cfg \in InferenceConfigs
    /\ data \in {[k \in 1..n |-> k] : n \in 0..MaxRows}
    /\ files = {}
    /\ ControlInit /\ HistoryInit /\ TextIdle
    /\ patient_results = <<>>
    /\ doctor_results = <<>>
    /\ patient_result = None
    /\ saved = {}
    /\ completions = [k \in 1..Len(data) |-> {}]

NextInfer ==
    \/ InferPatient
    \/ InferDoctor
    \/ InferSave

SpecInfer == InitInfer /\ [][NextInfer]_vars

\* a cleaning function is applied to an input text, repeatedly
InitText ==
    /\ script = "text"
    /\ pc = "text"
    /\ cfg = [dry_run |-> FALSE]
    /\ data = <<>>
    /\ files = {}
    /\ ControlInit /\ HistoryInit /\ InferIdle
    /\ fn \in TextFunctions
    /\ orig \in TextInputs
    /\ txt = orig
    /\ prev = orig
    /\ passes = 0

NextText == ApplyCleaning

SpecText == InitText /\ [][NextText]_vars

\* clean_text_with_options is called on an input text, with any options,
\* with and without the optional modules
InitOptions ==
    /\ script = "options"
    /\ pc = "text"
    /\ cfg \in OptionConfigs
    /\ data = <<>>
    /\ files = {}
    /\ ControlInit /\ HistoryInit /\ InferIdle
    /\ fn = "clean_text_with_options"
    /\ orig \in OptionInputs
    /\ txt = orig
    /\ prev = orig
    /\ passes = 0

NextOptions == ApplyOptions

SpecOptions == InitOptions /\ [][NextOptions]_vars

(***************************************************************************)
(* Properties                                                              *)
(***************************************************************************)

Records == DOMAIN outcome

\* the records that were counted as failed by synthesize_batch
FailedRecords == {r \in Records : outcome[r] \in {"invalid", "failed"}}

\* C1: for every retry count N >= 0 a submission whose every attempt fails
\* makes exactly N+1 attempts: while attempts are left every POST (every
\* tts_to_file call) made so far has failed and at most N were made; when
\* synthesize_video gives up it has made N+1 POSTs and returns None; when the
\* TTS retry loop gives up it has made N+1 calls and the record is counted
\* in failures.
C1_ExactlyNPlusOneAttempts ==
    cfg.retries >= 0 =>
       /\ script = "video" /\ pc = "v_submit" =>
             posts[i] = attempt /\ attempt <= cfg.retries
       /\ script = "tts" /\ pc = "t_synth" =>
             synth[i] = attempts /\ attempts <= cfg.retries
       /\ \A r \in Records :
             /\ script = "video" /\ outcome[r] = "submit_failed" =>
                   /\ posts[r] = cfg.retries + 1
                   /\ (i = r + 1 /\ pc = "v_item") => task_code = None
             /\ script = "tts" /\ outcome[r] = "failed" =>
                   synth[r] = cfg.retries + 1
       /\ script = "tts" => failures = Cardinality(FailedRecords)

\* a submission has failed on all of its two attempts and was given up
C1_Witness ==
    /\ script = "video" /\ cfg.retries = 1
    /\ \E r \in Records : outcome[r] = "submit_failed" /\ posts[r] = 2

\* C2: with resume enabled a record whose output artifact exists when the
\* loop reaches it causes no submit POST, no status GET and no tts_to_file
\* call.
C2_ResumeMakesNoCalls ==
    cfg.resume =>
       \A r \in found : posts[r] = 0 /\ gets[r] = 0 /\ synth[r] = 0

\* a run with resume has ended after it passed a record whose artifact was
\* there, and it has made calls for another record
C2_Witness ==
    /\ cfg.resume /\ pc = "done"
    /\ \E r \in found : outcome[r] = "skipped"
    /\ \E r \in Records : posts[r] + synth[r] > 0

\* C3: a status query is issued only while no completion value has been
\* seen for the task and less than poll_timeout has passed since polling
\* began.
C3_PollingStops ==
    [][\A r \in Records :
          gets'[r] > gets[r] =>
             /\ r \notin seen_complete
             /\ now < poll_start + cfg.poll_timeout]_vars

\* polling of the first record ended with a completion value and polling of
\* the second with the timeout, each after at least one query
C3_Witness ==
    /\ script = "video" /\ Len(data) >= 2
    /\ outcome[1] = "completed" /\ gets[1] >= 1 /\ 1 \in seen_complete
    /\ outcome[2] = "poll_timeout" /\ gets[2] >= 1

\* C4: in a dry run neither script makes a network or library call (no
\* POST, no GET, no TTS model construction, no tts_to_file call) and no audio
\* or video file is written.
C4_DryRunMakesNoCalls ==
    cfg.dry_run =>
       /\ \A r \in Records : posts[r] = 0 /\ gets[r] = 0 /\ synth[r] = 0
       /\ model_inits = 0
       /\ \A f \in written : f.ext \notin {"wav", "mp4"}

\* C5: a dry run of the TTS batch ends with the counts of a live run in
\* which every synthesis call succeeds: such a live run counts one success
\* for every record that is synthesized and one failure for every record
\* that is rejected, so the dry run's successes are the records that ended
\* as a success and its failures the records that ended as a failure, with
\* and without the hook manager.
C5_DryRunCountsAsLive ==
    (script = "tts" /\ cfg.dry_run /\ pc = "done") =>
       /\ successes = Cardinality({r \in Records : outcome[r] = "success"})
       /\ failures = Cardinality(FailedRecords)

\* C6: cleaning is idempotent: applying clean_text (normalize_text) to its
\* own result changes nothing.
C6_CleaningIdempotent ==
    (script = "text" /\ passes >= 2) => txt = prev

\* C7: cleaning a blood-pressure reading "S/D mmHg" gives a text that holds
\* "S millimeters of mercury" and "D millimeters of mercury", and not
\* "S/D millimeters of mercury".
C7_BloodPressureExpanded ==
    (script = "text" /\ passes = 1) =>
       \A pre \in BpPrefixes, s \in BpNumbers, d \in BpNumbers,
          gap \in BpGaps, suf \in BpSuffixes :
          orig = BpReading(pre, s, d, gap, suf) =>
             /\ Contains(txt, s \o LitMillimetersOfMercury)
             /\ Contains(txt, d \o LitMillimetersOfMercury)
             /\ ~Contains(txt, s \o <<"/">> \o d \o LitMillimetersOfMercury)
             /\ ~Contains(txt, <<"/">>)

\* clean_text has been applied to "120/80 mmHg"
C7_Witness ==
    /\ script = "text" /\ passes = 1 /\ fn = "clean_text"
    /\ orig = BpReading(<<>>, <<"1", "2", "0">>, <<"8", "0">>, <<" ">>, <<>>)
    /\ txt = LitSystolic \o <<"1", "2", "0">> \o LitMillimetersOfMercury
                 \o LitDiastolic \o <<"8", "0">> \o LitMillimetersOfMercury

\* C8: with resume enabled a record whose output artifact exists when the
\* loop reaches it is skipped entirely: its content is not validated, not
\* cleaned and not rewritten, and it is not counted as a failure.
C8_ResumeSkipsEntirely ==
    cfg.resume =>
       \A r \in found :
          /\ r \notin validated
          /\ r \notin cleaned
          /\ outcome[r] \notin {"invalid", "failed", "submit_failed"}

\* C9: a status query that fails, or that returns a payload whose status is
\* not a completion value (a failure value, another value, no value at all),
\* leaves the polling going: it does not end the record, mark it failed or
\* raise; polling that such queries leave going ends only with a completion
\* value or once poll_timeout has passed, and the record then ends as
\* completed or timed out.  (A payload that is not an object carries no
\* status value; it is the one response the claim does not speak of.)
C9_UnrecognizedKeepsPolling ==
    [][pc = "v_poll" =>
          /\ (gets'[i] > gets[i] /\ last_status' \in {"failed", "unrecognized"})
                => pc' = "v_poll" /\ i' = i /\ outcome'[i] = "none"
          /\ (pc' # "v_poll" /\ ~(gets'[i] > gets[i]
                                   /\ last_status' = "not_object"))
                => /\ \/ i \in seen_complete'
                      \/ now >= poll_start + cfg.poll_timeout
                   /\ outcome'[i] \in {"completed", "poll_timeout"}
                   /\ pc' = "v_item"]_vars

\* a status query came back without a completion value and the polling of
\* the record goes on: the next query is due
C9_Witness ==
    /\ script = "video" /\ pc = "v_poll"
    /\ gets[i] >= 1 /\ last_status = "unrecognized"
    /\ now < deadline

\* the item events of record r in the hooks log
ItemEvents(r) ==
    SelectSeq(log, LAMBDA e : e.index = r
                              /\ e.event \in {"item_success", "item_failure"})

\* the records that ended in a success or a failure
EndedRecords == {r \in Records : outcome[r] \in {"success", "invalid", "failed"}}

\* the event of a record's outcome
EventOf(o) == IF o = "success" THEN "item_success" ELSE "item_failure"

\* C10 as stated: with hooks enabled every record that ended in a success
\* or a failure has exactly one item event recorded in the log.
C10_OneEventRecorded ==
    (script = "tts" /\ hooks.enabled) =>
       \A r \in EndedRecords : Len(ItemEvents(r)) = 1

\* C10, amended: with hooks enabled every record that ended in a success or
\* a failure had exactly one hook callback, of the kind of its outcome; the
\* log holds exactly that one event for it when a hooks log is configured
\* and the append succeeded, and no event for it otherwise; no record has
\* more than one item event or events of both kinds.
C10_OneCallbackPerRecord ==
    (script = "tts" /\ hooks.enabled) =>
       \A r \in Records :
          /\ Len(ItemEvents(r)) <= 1
          /\ r \in EndedRecords =>
                /\ Len(calls[r]) = 1
                /\ calls[r][1].event = EventOf(outcome[r])
                /\ ItemEvents(r) =
                      (IF calls[r][1].written
                       THEN <<[event |-> EventOf(outcome[r]), index |-> r]>>
                       ELSE <<>>)
                /\ calls[r][1].written => cfg.hooks_log
          /\ r \notin EndedRecords => calls[r] = <<>> /\ ItemEvents(r) = <<>>

\* a run with a hooks log has ended with one record a success and another a
\* failure, and the log holds the event of each
C10_Witness ==
    /\ script = "tts" /\ hooks.enabled /\ cfg.hooks_log /\ pc = "done"
    /\ \E r1, r2 \in Records :
          /\ outcome[r1] = "success" /\ Len(ItemEvents(r1)) = 1
          /\ outcome[r2] = "failed" /\ Len(ItemEvents(r2)) = 1

\* C11: with hooks enabled and max_failures = M >= 1 the run never counts
\* more than M failed records, whatever successes lie between them, and once
\* M records have failed the run is over: no later record has been
\* validated, synthesized or given an outcome.
C11_StopsAtMaxFailures ==
    (script = "tts" /\ hooks.enabled /\ cfg.max_failures # None
                    /\ TheValue(cfg.max_failures) >= 1) =>
       /\ failures <= TheValue(cfg.max_failures)
       /\ Cardinality(FailedRecords) <= TheValue(cfg.max_failures)
       /\ Cardinality(FailedRecords) >= TheValue(cfg.max_failures) =>
             /\ pc = "done"
             /\ outcome[i] \in {"invalid", "failed"}
             /\ \A r \in Records :
                   r > i => /\ outcome[r] = "none" /\ synth[r] = 0
                            /\ r \notin validated /\ calls[r] = <<>>

\* with max_failures = 2 a record failed, the next succeeded, the third
\* failed, and the run ended there with a fourth record left untouched
C11_Witness ==
    /\ script = "tts" /\ hooks.enabled /\ cfg.max_failures = Some(2)
    /\ Len(data) = 4 /\ pc = "done" /\ i = 3
    /\ outcome[1] \in {"invalid", "failed"} /\ outcome[2] = "success"
    /\ outcome[3] \in {"invalid", "failed"} /\ outcome[4] = "none"

\* C12: a failure of the telemetry recorder's own file operations never
\* breaks the batch: synthesize_batch raises only where the speaker WAV is
\* missing or the TTS model fails to load, and the manager's failure count,
\* on which the abort decision rests, is the batch's failure count whatever
\* became of the writes.
C12_TelemetryNeverBreaksBatch ==
    script = "tts" =>
       /\ pc = "raised" => ~cfg.speaker_exists \/ model_inits > 0
       /\ hooks.enabled => hooks.failures = failures
       /\ failures = Cardinality(FailedRecords)

\* the outcomes of a record given up after the bounded retries
GivenUp == {"submit_failed", "failed"}

\* C13: a record whose submission or synthesis failed on every permitted
\* attempt is marked failed and the loop goes on with the record after it,
\* unless in the TTS script max_failures is reached; records get their
\* outcomes in input order, and a run that reaches its end has attempted
\* every record, unless the failure-count abort ended it.
C13_FailureDoesNotStopRun ==
    /\ [](script \in {"video", "tts"} =>
            /\ \A r \in Records :
                  outcome[r] # "none" =>
                     \A q \in 1..(r - 1) : outcome[q] # "none"
            /\ pc = "done" =>
                  \/ \A r \in Records : outcome[r] # "none"
                  \/ /\ script = "tts" /\ hooks.enabled
                     /\ cfg.max_failures # None
                     /\ failures >= TheValue(cfg.max_failures))
    /\ [][(pc \in {"v_item", "v_submit", "t_item", "t_synth"}
             /\ i \in Records /\ outcome[i] = "none"
             /\ outcome'[i] \in GivenUp) =>
               \/ i' = i + 1 /\ pc' \in {"v_item", "t_item"}
               \/ /\ script = "tts" /\ hooks'.enabled /\ pc' = "done"
                  /\ cfg.max_failures # None
                  /\ failures' >= TheValue(cfg.max_failures)]_vars

\* synthesis of the first record failed on both attempts, and the second
\* record was synthesized after it
C13_Witness ==
    /\ script = "tts" /\ cfg.retries = 1 /\ pc = "done" /\ Len(data) = 2
    /\ outcome[1] = "failed" /\ synth[1] = 2
    /\ outcome[2] = "success" /\ synth[2] >= 1

\* C14: when the speaker WAV does not exist synthesize_batch ends with an
\* error at once, in a dry run as in a live one: the TTS model is never
\* constructed, the input is never read, no record is validated, cleaned,
\* synthesized or counted, no file is written and no event is logged.
C14_MissingSpeakerAborts ==
    (script = "tts" /\ ~cfg.speaker_exists) =>
       /\ pc \in {"t_start", "raised"}
       /\ model_inits = 0 /\ ~data_loaded
       /\ validated = {} /\ cleaned = {} /\ written = {}
       /\ \A r \in Records :
             outcome[r] = "none" /\ synth[r] = 0 /\ calls[r] = <<>>
       /\ successes = 0 /\ failures = 0
       /\ log = <<>> /\ summary = None

\* a dry run with a hooks log, on a non-empty input, has ended with the
\* error about the missing speaker WAV
C14_Witness ==
    /\ script = "tts" /\ ~cfg.speaker_exists /\ cfg.dry_run
    /\ cfg.hooks_log /\ hooks.enabled /\ Len(data) >= 1
    /\ pc = "raised"

\* a content that is missing, not a string, or blank
Unusable(content) ==
    \/ ~content.isstr
    \/ \A k \in 1..Len(content.text) : content.text[k] \in Whitespace

\* C15: a record whose content is missing, not a string or blank is skipped:
\* the step that deals with it makes no synthesis call, writes no file,
\* counts exactly one failure and no success, and leaves the loop at the
\* next record, unless max_failures is thereby reached and the run ends; a
\* record so skipped never has a synthesis call.
C15_UnusableContentSkipped ==
    /\ [](script = "tts" =>
            \A r \in Records : outcome[r] = "invalid" => synth[r] = 0)
    /\ [][(script = "tts" /\ pc = "t_item" /\ i \in Records
             /\ Unusable(data[i].content)) =>
               /\ outcome'[i] = "invalid"
               /\ synth' = synth /\ files' = files /\ written' = written
               /\ failures' = failures + 1 /\ successes' = successes
               /\ \/ i' = i + 1 /\ pc' = "t_item"
                  \/ /\ hooks.enabled /\ pc' = "done"
                     /\ cfg.max_failures # None
                     /\ failures' >= TheValue(cfg.max_failures)]_vars

\* with sidecars asked for, a record with a blank content was skipped
\* without any file of its own, and the record after it was synthesized
C15_Witness ==
    /\ script = "tts" /\ cfg.write_metadata /\ pc = "done" /\ Len(data) = 2
    /\ data[1].content = Str(<<" ">>) /\ outcome[1] = "invalid"
    /\ failures = 1
    /\ File(Pad3(1), "wav") \notin files /\ File(Pad3(1), "json") \notin files
    /\ outcome[2] = "success" /\ File(Pad3(2), "json") \in written

\* the records that a step makes a network or synthesis call for, gives an
\* outcome or a hook callback
Touched ==
    {r \in Records : \/ posts'[r] # posts[r] \/ gets'[r] # gets[r]
                     \/ synth'[r] # synth[r] \/ outcome'[r] # outcome[r]
                     \/ calls'[r] # calls[r]}

\* the files that belong to record r
FilesOf(r) ==
    IF script = "video" THEN {File(Pad3(r), "json")}
    ELSE {File(OutStem(r, data[r]), e) : e \in {"wav", "json"}}

\* the network and synthesis calls a step makes for record r
CallsMade(r) ==
    (posts'[r] - posts[r]) + (gets'[r] - gets[r]) + (synth'[r] - synth[r])

\* C16: records are processed one at a time in input order: every step
\* works on the current record only (its calls, its files, its outcome),
\* the position moves forward by one record at a time and never back, and
\* a step makes at most one network or synthesis call, which has returned
\* when the step ends.
C16_OneRecordAtATime ==
    [][(script \in {"video", "tts"}) =>
          /\ Touched \subseteq {i}
          /\ written' # written =>
                i \in Records /\ (written' \ written) \subseteq FilesOf(i)
          /\ i' \in {i, i + 1}
          /\ \A r \in Records :
                /\ posts'[r] - posts[r] \in {0, 1}
                /\ gets'[r] - gets[r] \in {0, 1}
                /\ synth'[r] - synth[r] \in {0, 1}
                /\ CallsMade(r) <= 1
    ]_vars

\* the first record was submitted at the second attempt, its sidecar
\* written and its task polled, the pacing sleep taken, and the second
\* record was submitted after that
C16_Witness ==
    /\ script = "video" /\ Len(data) = 2 /\ pc = "done"
    /\ cfg.write_metadata /\ cfg.sleep_seconds > 0
    /\ posts[1] = 2 /\ gets[1] >= 1 /\ outcome[1] \in {"completed", "poll_timeout"}
    /\ File(Pad3(1), "json") \in written
    /\ posts[2] >= 1 /\ outcome[2] # "none"

RECURSIVE Pow2(_)
Pow2(k) == IF k = 0 THEN 1 ELSE 2 * Pow2(k - 1)

\* the wait the claim gives for the k-th failed attempt, when another
\* attempt is permitted
ClaimedWait(k) == Min(2 * k, 5)

\* a step in which an attempt fails: the k-th of the record
FailedAttempt(k) ==
    \/ script = "video" /\ pc = "v_submit" /\ attempt' = attempt + 1
                        /\ k = attempt'
    \/ script = "tts" /\ pc = "t_synth" /\ attempts' = attempts + 1
                      /\ k = attempts'

\* C17: after the k-th failed attempt the script waits min(2k, 5) seconds
\* when another attempt is permitted and does not wait when none is; that
\* wait equals min(2^k, 5), is never above 5 seconds, is never shorter than
\* the wait before it and is longer as long as the cap is not reached.
C17_CappedBackoff ==
    [][\A k \in 1..(MaxBackoffRetries + 2) :
          FailedAttempt(k) =>
             /\ k <= cfg.retries =>
                   /\ now' - now = ClaimedWait(k)
                   /\ now' - now = Min(Pow2(k), 5)
                   /\ k > 1 => /\ now' - now >= ClaimedWait(k - 1)
                                /\ ClaimedWait(k - 1) < 5 =>
                                      now' - now > ClaimedWait(k - 1)
             /\ k > cfg.retries => now' = now
             /\ now' - now <= 5]_vars

\* four submissions of a record have failed and a fifth is due: the script
\* has waited 2, 4, 5 and 5 seconds
C17_Witness ==
    /\ script = "video" /\ cfg.retries = 4 /\ pc = "v_submit"
    /\ attempt = 4 /\ posts[1] = 4 /\ now = 16

\* the records the TTS script has synthesized an audio file for
Synthesized ==
    {r \in Records : outcome[r] = "success" /\ synth[r] >= 1}

\* the TTS script names record r's output by its position: --filename-field
\* is not in effect, or the record has no usable value in that field
NamedByPosition(r) ==
    \/ ~cfg.optional_modules \/ ~cfg.filename_field
    \/ data[r].name = None
    \/ Strip(TheValue(data[r].name)) = <<>>

C19_ResumeSkipsOnlyDoneWork ==
    script = "video" =>
       \A r \in Records : outcome[r] = "skipped" => r \in post_ok

\* C20: in the inference scripts an output file exists only once every
\* input row has received its patient and its doctor completion; every
\* file written holds one entry per input row, in row order, of its own
\* kind; a run that ended because a completion call raised has written no
\* file, and a run that ended normally has written all four.
C20_PersistedOnlyAtEnd ==
    script = "infer" =>
       /\ saved # {} =>
             /\ pc \in {"done", "write_raised"}
             /\ \A r \in 1..Len(prompts_df) :
                   completions[r] = {"patient", "doctor"}
       /\ \A f \in saved :
             /\ Len(f.content) = Len(prompts_df)
             /\ \A k \in 1..Len(f.content) :
                   /\ f.content[k].row = prompts_df[k]
                   /\ f.content[k].kind = f.of
       /\ pc = "raised" => saved = {}
       /\ pc = "done" => Cardinality(saved) = 4

\* a run over two rows has ended normally: the four files are written and
\* the two rows got different replies
C20_Witness ==
    /\ script = "infer" /\ pc = "done" /\ Len(prompts_df) = 2
    /\ Cardinality(saved) = 4
    /\ \E f \in saved : f.content[1].content # f.content[2].content

\* the records for which synthesize_video has been called and has returned
SubmissionReturned ==
    {r \in Records :
        /\ ~cfg.dry_run
        /\ \/ outcome[r] \in {"submit_failed", "submitted", "completed",
                              "poll_timeout", "poll_raised"}
           \/ r = i /\ pc = "v_poll"}

\* C21: synthesize_video makes one POST per attempt and stops at the first
\* attempt that succeeds: the step of a POST makes exactly one, every POST
\* before it has failed, a POST that succeeds hands the task code to main
\* with no further attempt and no backoff wait (the only wait that can follow
\* is main's pacing sleep), and no POST is made for the record afterwards; for every retry count, negative ones included, a
\* submission that has returned has made at least 1 and at most
\* max(0, retries) + 1 POSTs.
C21_OnePostPerAttempt ==
    /\ [](script = "video" =>
            /\ \A r \in Records : posts[r] <= Max(0, cfg.retries) + 1
            /\ \A r \in SubmissionReturned : posts[r] >= 1
            /\ \A r \in Records :
                  outcome[r] = "submit_failed" =>
                     posts[r] = Max(0, cfg.retries) + 1 /\ r \notin post_ok
            /\ pc = "v_submit" =>
                  posts[i] = attempt /\ i \notin post_ok)
    /\ [][(script = "video") =>
            /\ \A r \in Records :
                  /\ posts'[r] - posts[r] \in {0, 1}
                  /\ posts'[r] # posts[r] => r = i /\ pc = "v_submit"
                  /\ r \in post_ok => posts'[r] = posts[r]
            /\ (pc = "v_submit" /\ i \in post_ok') =>
                  /\ posts'[i] = posts[i] + 1
                  /\ task_code' = Some(Pad3(i))
                  /\ attempt' = attempt
                  /\ pc' # "v_submit"
                  /\ now' - now = (IF pc' # "v_poll" /\ cfg.sleep_seconds > 0
                                   THEN cfg.sleep_seconds ELSE 0)]_vars

\* with four retries allowed the third POST of a record succeeded: two
\* attempts had failed, and the record was submitted with three POSTs
C21_Witness ==
    /\ script = "video" /\ cfg.retries = 4 /\ pc = "done"
    /\ outcome[1] = "submitted" /\ posts[1] = 3 /\ attempt = 2
    /\ 1 \in post_ok /\ task_code = Some(Pad3(1))

\* the equality C22 starts from: normalize_text with acronym expansion and
\* clean_text give the same text for the input
C22_SameFunction ==
    script = "options" => normalize_text(orig, TRUE) = clean_text(orig)

\* C22: the reusable normalizer and the original pipeline compute the same
\* function, normalize_text(t, expand_acronyms=True) = clean_text(t) for
\* every input t, and clean_text_with_options returns the same text whether
\* or not the optional normalizer module is available: what a call has
\* returned is what the same call returns on the other import path.
C22_SameTextOnBothPaths ==
    script = "options" =>
       /\ normalize_text(orig, TRUE) = clean_text(orig)
       /\ passes = 1 =>
             txt = clean_text_with_options(orig, cfg.expand_acronyms,
                                           cfg.strip_newlines,
                                           ~cfg.optional_modules)

\* C23: with acronym expansion disabled (expand_acronyms = False) the
\* cleaned text of every record leaves "ICH" unexpanded, with the optional
\* normalizer and on the fallback path alike: no cleaned record holds
\* "intracerebral hemorrhage", which no input content holds.
C23_NoAcronymLeavesICH ==
    (script = "tts" /\ ~cfg.expand_acronyms) =>
       \A r \in cleaned : ~Contains(data[r].content.text, LitIntracerebral)

\* C24: in a live run a record is counted as a success, and gets an
\* item_success callback, only if a tts_to_file call for it has returned
\* without raising, i.e. at least one call was made for it and its WAV was
\* written; this for every value of config.retries, negative ones included.
C24_SuccessNeedsSynthesis ==
    (script = "tts" /\ ~cfg.dry_run) =>
       /\ \A r \in Records :
             (\/ outcome[r] = "success"
              \/ \E k \in 1..Len(calls[r]) : calls[r][k].event = "item_success")
                => /\ synth[r] >= 1
                   /\ File(OutStem(r, data[r]), "wav") \in written
       /\ successes <= Cardinality({r \in Records : synth[r] >= 1})

\* the sidecar of the video script for record r
VideoSidecar(r) == File(Pad3(r), "json")

Emitted(event) ==
    {r \in Records : \E k \in 1..Len(calls[r]) : calls[r][k].event = event}

\* the events of a kind that the hooks log holds
Logged(event) == SelectSeq(log, LAMBDA e : e.event = event)

\* C26: with hooks enabled, after every record the batch's own successes
\* and failures equal the hook manager's state.successes and state.failures,
\* and both equal the numbers of item_success and item_failure events
\* emitted so far, one per record; so the counts of the run summary are the
\* numbers of events emitted in the run (the log holds as many of them as
\* could be appended, never more).
C26_CountersAgree ==
    (script = "tts" /\ hooks.enabled) =>
       /\ hooks.successes = successes
       /\ hooks.failures = failures
       /\ successes = Cardinality(Emitted("item_success"))
       /\ failures = Cardinality(Emitted("item_failure"))
       /\ \A r \in Records : Len(calls[r]) <= 1
       /\ Len(Logged("item_success")) <= successes
       /\ Len(Logged("item_failure")) <= failures
       /\ summary # None =>
             /\ pc = "done"
             /\ TheValue(summary).successes
                   = Cardinality(Emitted("item_success"))
             /\ TheValue(summary).failures
                   = Cardinality(Emitted("item_failure"))

\* a run with a run summary has ended after one success and one failure,
\* and the summary says so
C26_Witness ==
    /\ script = "tts" /\ hooks.enabled /\ cfg.run_summary /\ pc = "done"
    /\ Len(data) = 2
    /\ Cardinality(Emitted("item_success")) = 1
    /\ Cardinality(Emitted("item_failure")) = 1
    /\ summary = Some([successes |-> 1, failures |-> 1])

\* the positions of the item events of a sequence of events
ItemPositions(es) ==
    {k \in 1..Len(es) : es[k].event \in {"item_success", "item_failure"}}

\* a sequence of events is in order: run_start only in the first place,
\* item events with strictly increasing record index, run_complete only in
\* the last place
InOrder(es) ==
    /\ \A k \in 1..Len(es) :
          /\ es[k].event = "run_start" => k = 1
          /\ es[k].event = "run_complete" => k = Len(es)
    /\ \A j, k \in ItemPositions(es) : j < k => es[j].index < es[k].index

\* C27: in a run with hooks enabled the events are emitted in order:
\* run_start is the first, item events follow with strictly increasing
\* record index, and run_complete is emitted exactly once and last, when
\* the loop has run through as when the failure-count guard has ended it;
\* no event follows run_complete.  What the hooks log holds is in the same
\* order.
C27_EventsInOrder ==
    /\ [](script = "tts" =>
            /\ InOrder(events) /\ InOrder(log)
            /\ ~hooks.enabled => events = <<>>
            /\ (hooks.enabled /\ pc \in {"t_item", "t_synth", "done"}) =>
                  /\ Len(events) >= 1
                  /\ events[1].event = "run_start"
                  /\ \A k \in ItemPositions(events) : events[k].index <= i
            /\ (hooks.enabled /\ pc = "done") <=>
                  (events # <<>> /\ events[Len(events)].event = "run_complete"))
    /\ [][(script = "tts" /\ events # <<>>
             /\ events[Len(events)].event = "run_complete") =>
               events' = events]_vars

\* with max_failures = 2 and four records the run was ended by the guard
\* at the third record: run_start, a failure, a success, a failure and
\* run_complete were emitted, in this order
C27_Witness ==
    /\ script = "tts" /\ hooks.enabled /\ cfg.max_failures = Some(2)
    /\ Len(data) = 4 /\ pc = "done"
    /\ events = <<Event("run_start", 0), Event("item_failure", 1),
                  Event("item_success", 2), Event("item_failure", 3),
                  Event("run_complete", 0)>>

\* the output WAV of record r, as synthesize_batch names it
OutWav(r) == File(OutStem(r, data[r]), "wav")

\* C28: within one run of synthesize_batch two different records never map
\* to the same output WAV, with index names and with names derived from
\* filename_field alike: the records the loop has named have pairwise
\* different WAV paths, and a record that resume skipped was not skipped
\* for a file this run has written for another record.
C28_DistinctOutputPaths ==
    script = "tts" =>
       /\ \A r1, r2 \in cleaned : r1 # r2 => OutWav(r1) # OutWav(r2)
       /\ \A r \in Records : outcome[r] = "skipped" => OutWav(r) \notin written

\* the run is over: the loop was left and main or synthesize_batch returned,
\* or an exception ended the run
Ended == pc \in {"done", "raised"}

\* C29: every run terminates.  No retry loop makes more than
\* max(0, retries) + 1 attempts (retries + 1 for every retry count the
\* command line can give), a status query is issued only while poll_timeout
\* has not elapsed since polling began, whatever the queries return, the
\* position in the input never moves back, and every run ends: by the loop
\* passing the last record, by the failure-count guard, or by an error.  A
\* run that ended normally without the guard has passed the last record.
C29_EveryRunTerminates ==
    /\ [](script \in {"video", "tts"} =>
            /\ \A r \in Records :
                  /\ posts[r] <= Max(0, cfg.retries) + 1
                  /\ synth[r] <= Max(0, cfg.retries) + 1
            /\ attempt <= Max(0, cfg.retries) + 1
            /\ attempts <= Max(0, cfg.retries) + 1
            /\ (pc = "done" /\ ~(script = "tts" /\ hooks.enabled
                                   /\ should_abort(hooks)))
                  => i = Len(data) + 1)
    /\ [][(script \in {"video", "tts"}) =>
            /\ gets' # gets => now < poll_start + cfg.poll_timeout
            /\ i' >= i
            /\ Ended => UNCHANGED vars]_vars
    /\ <>[]Ended

\* a run has ended although the service never did its part: every
\* submission of the first record failed, and the second record was polled
\* until the timeout without a completion value ever being seen
C29_Witness ==
    /\ script = "video" /\ pc = "done" /\ Len(data) = 2 /\ cfg.retries = 1
    /\ outcome[1] = "submit_failed" /\ posts[1] = 2
    /\ outcome[2] = "poll_timeout" /\ gets[2] >= 2 /\ seen_complete = {}
    /\ last_status = "failed"

\* the abort condition of the failure-count guard holds: max_failures is
\* set and the failures counted so far have reached it
AbortConditionHolds ==
    cfg.max_failures # None /\ failures >= TheValue(cfg.max_failures)

\* C30: synthesize_batch never starts synthesizing a record while the abort
\* condition (max_failures set and failures >= max_failures) already holds:
\* no tts_to_file call is made and no WAV is written in such a state; in
\* particular with max_failures = 0 no record is synthesized and no WAV is
\* written.
C30_NoSynthesisOnceAborting ==
    /\ [](script = "tts" /\ cfg.max_failures = Some(0) =>
            /\ \A r \in Records : synth[r] = 0
            /\ \A f \in written : f.ext # "wav")
    /\ [][(script = "tts" /\ AbortConditionHolds) =>
            /\ synth' = synth
            /\ \A f \in written' \ written : f.ext # "wav"
            /\ pc' # "t_synth"]_vars

====
